---- MODULE Spec2Model ----
(***************************************************************************)
(* Decision engine of JamesTradeBot: position reconstruction from the      *)
(* trade journal (trading_core.py has_open_spot and its two futures        *)
(* siblings), the journal append                                           *)
(* (db_json.py append_trade), alone and called from several threads, and   *)
(* the cycle driver with its indicator vote and trade-mode policy          *)
(* (trading_core.py run_once / analyze_and_trade_for_user).                *)
(*                                                                         *)
(* Numbers.  Money is an integer number of USD.  A quantity is an integer  *)
(* number of 10^-QtyScaleDigits units (a fixed-point value), so            *)
(* floor(q * 10^prec) / 10^prec is exact integer arithmetic.               *)
(* Timestamps are the strings datetime.isoformat() produces, kept as       *)
(* sequences of character codes and compared as Python compares strings.   *)
(***************************************************************************)
EXTENDS Integers, Sequences, FiniteSets, TLC

VARIABLES
    trades_file,  \* trades.json: [valid |-> parseable JSON list, data |-> the list]
    users,        \* users.json: uid -> [api_key, api_secret, settings]
    pc,           \* position of the engine process
    ui,           \* index into the account list of run_once (0: none)
    si,           \* index into the symbol list of the account (0: none)
    balance_usd,  \* local of analyze_and_trade_for_user
    now,          \* wall clock, in ticks
    sig,          \* locals of one symbol evaluation: votes, active, price, timestamp
    pos,          \* locals spot_pos / short_pos / long_pos of the evaluation
    blk,          \* next policy block of the evaluation (0: none)
    acts,         \* history: gateway calls, appends and notifications of the evaluation
    seen,         \* history: journal contents read by the positions detection
    visited,      \* history: (uid, symbol) pairs evaluated in the running cycle
    faults,       \* history: (uid, symbol) pairs whose evaluation raised in the cycle
    crashed,      \* history: the process was restarted after a crash
    nfaults,      \* history: environment failures so far (I/O, gateway, crash)
    cur,          \* locals uid and symbol: the pair being evaluated or queried
    outcome,      \* history: what each indicator did in the last vote
    lock,         \* LOCK of the journal module: the thread holding it, or 0
    thr,          \* the threads inside append_trade: position, record, local list
    loaded,       \* local "users" of the engine: the profile store as it loaded it
    call          \* a call of a pure function: its arguments and its result

vars == <<trades_file, users, pc, ui, si, balance_usd, now, sig, pos, blk,
          acts, seen, visited, faults, crashed, nfaults, cur, outcome, lock, thr,
          loaded, call>>

(***************************************************************************)
(* Bounds                                                                  *)
(***************************************************************************)
MaxLen == 3       \* longest journal given to the position reconstruction
MaxTs == 3        \* distinct timestamps in those journals
MaxFaults == 1    \* environment failures in one run of the engine
QtyScaleDigits == 1  \* decimals of the fixed-point quantities
MaxClock == 2     \* evaluations that journal something in one run of the engine
MaxAppends == 4   \* appends in one run of the journal store
MaxThreads == 3   \* threads calling append_trade at the same time

(***************************************************************************)
(* Strings                                                                 *)
(***************************************************************************)
\* str.lower() on the side strings that occur
Lower(s) ==
    CASE s = "Buy" -> "buy"
      [] s = "Sell" -> "sell"
      [] s = "FUTURES" -> "futures"
      [] OTHER -> s

\* datetime.utcnow().isoformat(): "<seconds>" when the microsecond field is
\* zero, "<seconds>.<fraction>" otherwise.  A tick is half a second; the
\* fixed-width date-and-seconds prefix is one digit.
IsoFormat(n) ==
    IF n % 2 = 0 THEN << 48 + (n \div 2) >>
    ELSE << 48 + (n \div 2), 46, 53 >>

\* Python's str > str: lexicographic on character codes, a proper prefix is smaller
RECURSIVE StrGT(_, _)
StrGT(a, b) ==
    IF a = << >> THEN FALSE
    ELSE IF b = << >> THEN TRUE
    ELSE IF Head(a) # Head(b) THEN Head(a) > Head(b)
    ELSE StrGT(Tail(a), Tail(b))

(***************************************************************************)
(* Accounts and symbols                                                    *)
(***************************************************************************)
UidSet == {1, 2}

\* list(users.keys()): the keys of the store, in ascending order
RECURSIVE KeyList(_)
KeyList(S) ==
    IF S = {} THEN << >>
    ELSE LET m == CHOOSE x \in S : \A y \in S : x <= y
         IN << m >> \o KeyList(S \ {m})

Uids == KeyList(DOMAIN users)
SymbolSet == {"BTCUSDT", "ETHUSDT"}

\* Optional values: << >> is None, <<x>> is x
None == << >>
Some(x) == << x >>

(***************************************************************************)
(* Trade records.  action "" and result "none" stand for an absent key     *)
(* (t.get("action", "") reads an absent key as "").                        *)
(***************************************************************************)
Trade(uid, symbol, market, side, action, qty, price, ts, dry, result, lev) ==
    [user_id |-> uid, symbol |-> symbol, market_type |-> market, side |-> side,
     action |-> action, qty |-> qty, price |-> price, timestamp |-> ts,
     dry |-> dry, result |-> result, leverage |-> lev]

(***************************************************************************)
(* Journal file                                                            *)
(***************************************************************************)
\* outcomes of reading a file, and of open(path, "w") followed by json.dump:
\* "fail_open" leaves the file alone, "fail_dump" leaves it truncated
ReadOutcomes == {"ok", "fail"}
WriteOutcomes == {"ok", "fail_open", "fail_dump"}

EmptyFile == [valid |-> TRUE, data |-> << >>]
BrokenFile == [valid |-> FALSE, data |-> << >>]

\* read_trades: the parsed list, or [] when the file cannot be read or parsed
read_trades(file, io) == IF file.valid /\ io = "ok" THEN file.data ELSE << >>

\* db_json._read(path, []): the same, with the default [] on any exception
db_read(file, io) == IF file.valid /\ io = "ok" THEN file.data ELSE << >>

\* db_json._write(path, data): exceptions are printed and swallowed
db_write(file, arr, io) ==
    CASE io = "ok" -> [valid |-> TRUE, data |-> arr]
      [] io = "fail_open" -> file
      [] io = "fail_dump" -> BrokenFile

\* db_json.append_trade under LOCK: read, append, write back
append_trade(file, tr, rio, wio) ==
    db_write(file, Append(db_read(file, rio), tr), wio)

\* what a reader finds in the file
Journal(file) == read_trades(file, "ok")

(***************************************************************************)
(* Position reconstruction                                                 *)
(***************************************************************************)
\* the scan "for t in trades: if <match>: last = t": the physically last match
LastOf(matches) ==
    IF matches = << >> THEN None ELSE Some(matches[Len(matches)])

MatchesSymbol(t, user_id, symbol, market) ==
    /\ t.user_id = user_id
    /\ t.symbol = symbol
    /\ t.market_type = market

\* "if last_open and (not last_close or last_open.ts > last_close.ts): return last_open"
OpenIfNewer(last_open, last_close) ==
    IF /\ last_open # None
       /\ \/ last_close = None
          \/ StrGT(last_open[1].timestamp, last_close[1].timestamp)
    THEN last_open
    ELSE None

HasOpenSpotIgnoringSells(trades, user_id, symbol) ==
    LastOf(SelectSeq(trades,
                     LAMBDA t : MatchesSymbol(t, user_id, symbol, "spot")
                                /\ Lower(t.side) = "buy"))

has_open_spot(trades, user_id, symbol) ==
    LET last_buy == LastOf(SelectSeq(trades,
                      LAMBDA t : MatchesSymbol(t, user_id, symbol, "spot")
                                 /\ Lower(t.side) = "buy"))
        last_sell == LastOf(SelectSeq(trades,
                      LAMBDA t : MatchesSymbol(t, user_id, symbol, "spot")
                                 /\ Lower(t.side) = "sell"))
    IN OpenIfNewer(last_buy, last_sell)

has_open_futures_short(trades, user_id, symbol) ==
    LET last_open == LastOf(SelectSeq(trades,
                      LAMBDA t : MatchesSymbol(t, user_id, symbol, "futures")
                                 /\ Lower(t.side) = "sell" /\ t.action = "open"))
        last_close == LastOf(SelectSeq(trades,
                      LAMBDA t : MatchesSymbol(t, user_id, symbol, "futures")
                                 /\ Lower(t.side) = "buy" /\ t.action = "close"))
    IN OpenIfNewer(last_open, last_close)

has_open_futures_long(trades, user_id, symbol) ==
    LET last_open == LastOf(SelectSeq(trades,
                      LAMBDA t : MatchesSymbol(t, user_id, symbol, "futures")
                                 /\ Lower(t.side) = "buy" /\ t.action = "open"))
        last_close == LastOf(SelectSeq(trades,
                      LAMBDA t : MatchesSymbol(t, user_id, symbol, "futures")
                                 /\ Lower(t.side) = "sell" /\ t.action = "close"))
    IN OpenIfNewer(last_open, last_close)

AllReadsOk == [spot |-> "ok", short |-> "ok", long |-> "ok"]

NoPos == [spot |-> None, short |-> None, long |-> None]

\* a variant in which a restarted process comes up without positions
DetectPositionsLostOnRestart(file, user_id, symbol, ios) ==
    IF crashed THEN NoPos
    ELSE [spot |-> has_open_spot(read_trades(file, ios.spot), user_id, symbol),
          short |-> has_open_futures_short(read_trades(file, ios.short), user_id, symbol),
          long |-> has_open_futures_long(read_trades(file, ios.long), user_id, symbol)]

\* spot_pos, short_pos, long_pos of one evaluation; each call reads the file
DetectPositions(file, user_id, symbol, ios) ==
    [spot |-> has_open_spot(read_trades(file, ios.spot), user_id, symbol),
     short |-> has_open_futures_short(read_trades(file, ios.short), user_id, symbol),
     long |-> has_open_futures_long(read_trades(file, ios.long), user_id, symbol)]

(***************************************************************************)
(* Position reconstruction over arbitrary journals                         *)
(***************************************************************************)
NoCur == [user_id |-> 0, symbol |-> ""]
NoOutcome == << >>
NoCall == << >>
NoSig == [buy |-> 0, sell |-> 0, active |-> 0, price |-> 0, timestamp |-> << >>]

ReconTs == {IsoFormat(n) : n \in 0..(MaxTs - 1)}

\* the open-class and the close-class record kind of each partition
ReconKinds ==
    [spot |-> {<<"spot", "Buy", "">>, <<"spot", "Sell", "">>},
     long |-> {<<"futures", "Buy", "open">>, <<"futures", "Sell", "close">>},
     short |-> {<<"futures", "Sell", "open">>, <<"futures", "Buy", "close">>}]

\* journals that focus on partition p: its records of account 1 / BTCUSDT at
\* every timestamp, the records of the other partitions at the latest
\* timestamp, and two records of another account and another symbol
ReconRecords(p) ==
    {Trade(1, "BTCUSDT", k[1], k[2], k[3], 10, 5, ts, FALSE, "ok", 0) :
        k \in ReconKinds[p], ts \in ReconTs}
    \cup {Trade(1, "BTCUSDT", k[1], k[2], k[3], 10, 5, IsoFormat(MaxTs - 1), FALSE, "ok", 0) :
            k \in UNION {ReconKinds[q] : q \in DOMAIN ReconKinds}}
    \cup {Trade(2, "BTCUSDT", "spot", "Buy", "", 10, 5, IsoFormat(MaxTs - 1), FALSE, "ok", 0),
          Trade(1, "ETHUSDT", "futures", "Sell", "open", 10, 5, IsoFormat(MaxTs - 1), FALSE, "ok", 3)}

ReconJournals ==
    UNION {[1..n -> ReconRecords(p)] : n \in 0..MaxLen, p \in DOMAIN ReconKinds}

EngineAtRest ==
    /\ pc = "idle"
    /\ ui = 0
    /\ si = 0
    /\ balance_usd = 0
    /\ now = 0
    /\ sig = NoSig
    /\ blk = 0
    /\ acts = << >>
    /\ seen = << >>
    /\ visited = << >>
    /\ faults = {}
    /\ crashed = FALSE
    /\ nfaults = 0
    /\ outcome = NoOutcome
    /\ lock = 0
    /\ thr = << >>
    /\ loaded = << >>
    /\ call = NoCall

InitRecon ==
    /\ trades_file \in {[valid |-> TRUE, data |-> j] : j \in ReconJournals}
                       \cup {BrokenFile}
    /\ users = << >>
    /\ EngineAtRest
    /\ pos = NoPos
    /\ cur = NoCur

\* the three has_open_* calls for one (account, symbol)
ReconQuery ==
    \E u \in UidSet, s \in SymbolSet :
        /\ cur' = [user_id |-> u, symbol |-> s]
        /\ pos' = DetectPositions(trades_file, u, s, AllReadsOk)
        /\ UNCHANGED <<outcome, lock, thr, loaded, call>>
        /\ UNCHANGED <<trades_file, users, pc, ui, si, balance_usd, now, sig, blk,
                       acts, seen, visited, faults, crashed, nfaults>>

NextRecon == ReconQuery

SpecRecon == InitRecon /\ [][NextRecon]_vars

(***************************************************************************)
(* Partitions as the design document states them                           *)
(***************************************************************************)
Partitions == {"spot", "short", "long"}

OpenClass(p, t) ==
    CASE p = "spot" -> t.market_type = "spot" /\ Lower(t.side) = "buy"
      [] p = "long" -> t.market_type = "futures" /\ Lower(t.side) = "buy" /\ t.action = "open"
      [] p = "short" -> t.market_type = "futures" /\ Lower(t.side) = "sell" /\ t.action = "open"

CloseClass(p, t) ==
    CASE p = "spot" -> t.market_type = "spot" /\ Lower(t.side) = "sell"
      [] p = "long" -> t.market_type = "futures" /\ Lower(t.side) = "sell" /\ t.action = "close"
      [] p = "short" -> t.market_type = "futures" /\ Lower(t.side) = "buy" /\ t.action = "close"

\* the records of one (account, symbol, partition), in journal order
PartJournal(trades, u, s, p) ==
    SelectSeq(trades, LAMBDA t : /\ t.user_id = u
                                 /\ t.symbol = s
                                 /\ (OpenClass(p, t) \/ CloseClass(p, t)))

IsOpenThenClose(J, p) ==
    /\ Len(J) = 2
    /\ OpenClass(p, J[1]) /\ CloseClass(p, J[2])
    /\ StrGT(J[2].timestamp, J[1].timestamp)

IsOpenCloseOpen(J, p) ==
    /\ Len(J) = 3
    /\ OpenClass(p, J[1]) /\ CloseClass(p, J[2]) /\ OpenClass(p, J[3])
    /\ StrGT(J[2].timestamp, J[1].timestamp)
    /\ StrGT(J[3].timestamp, J[2].timestamp)

\* C1: for the queried (account, symbol) and each partition, a journal
\* [open@t1] reconstructs as open, [open@t1, close@t2] with t2 > t1 as
\* closed, and [open@t1, close@t2, open@t3] with t3 > t2 > t1 as open again.
C1_OpenCloseReopen ==
    cur # NoCur =>
        \A p \in Partitions :
            LET J == PartJournal(Journal(trades_file), cur.user_id, cur.symbol, p)
            IN /\ (Len(J) = 1 /\ OpenClass(p, J[1])) => pos[p] # None
               /\ IsOpenThenClose(J, p) => pos[p] = None
               /\ IsOpenCloseOpen(J, p) => pos[p] # None

C1_Witness ==
    /\ cur # NoCur
    /\ LET J == PartJournal(Journal(trades_file), cur.user_id, cur.symbol, "long")
       IN IsOpenCloseOpen(J, "long") /\ pos["long"] # None

\* the largest of a set of timestamps, None if there is none
MaxStamp(S) ==
    IF S = {} THEN None
    ELSE Some(CHOOSE m \in S : \A x \in S : ~StrGT(x, m))

\* C2: for every journal and every (account, symbol, partition) the
\* reconstructed state is open iff an open-class record exists and either no
\* close-class record exists or the maximal open-class timestamp is greater
\* than the maximal close-class timestamp (hence independent of the physical
\* order of the records).
C2_MaxTimestampDecides ==
    cur # NoCur =>
        \A p \in Partitions :
            LET J == PartJournal(Journal(trades_file), cur.user_id, cur.symbol, p)
                mo == MaxStamp({J[i].timestamp : i \in {k \in 1..Len(J) : OpenClass(p, J[k])}})
                mc == MaxStamp({J[i].timestamp : i \in {k \in 1..Len(J) : CloseClass(p, J[k])}})
            IN (pos[p] # None) <=> (mo # None /\ (mc = None \/ StrGT(mo[1], mc[1])))

(***************************************************************************)
(* The journal store on its own: appends with every I/O outcome            *)
(***************************************************************************)
StoreRecord(kind, n) ==
    IF kind = 0
    THEN Trade(1, "BTCUSDT", "spot", "Buy", "", 10, 1, IsoFormat(n), FALSE, "ok", 0)
    ELSE Trade(2, "ETHUSDT", "futures", "Sell", "open", 25, 4, IsoFormat(n), TRUE, "none", 3)

InitStore ==
    /\ trades_file = EmptyFile
    /\ users = << >>
    /\ EngineAtRest
    /\ pos = NoPos
    /\ cur = NoCur

\* one call of append_trade(tr); the clock stamps the record
StoreAppend ==
    /\ now < MaxAppends
    /\ \E rio \in ReadOutcomes, wio \in WriteOutcomes, kind \in 0..1 :
        /\ now' = now + 1
        /\ trades_file' = append_trade(trades_file, StoreRecord(kind, now), rio, wio)
    /\ UNCHANGED <<outcome, lock, thr, loaded, call>>
    /\ UNCHANGED <<users, pc, ui, si, balance_usd, sig, pos, blk,
                   acts, seen, visited, faults, crashed, nfaults, cur>>

NextStore == StoreAppend

SpecStore == InitStore /\ [][NextStore]_vars

RECURSIVE IsSubseq(_, _)
IsSubseq(a, b) ==
    IF a = << >> THEN TRUE
    ELSE IF b = << >> THEN FALSE
    ELSE IF Head(a) = Head(b) THEN IsSubseq(Tail(a), Tail(b))
    ELSE IsSubseq(a, Tail(b))

\* C3: the journal is append-only: whatever the outcome of the reads and
\* writes of an append, every record that was in the journal before a step
\* is in it after the step, unmodified and in the same relative order.
C3_AppendOnly == [][IsSubseq(Journal(trades_file), Journal(trades_file'))]_vars

(***************************************************************************)
(* Concurrent appends: each thread runs db_json.append_trade, statement by *)
(* statement, under the module's LOCK                                      *)
(***************************************************************************)
InitLock ==
    /\ trades_file = EmptyFile
    /\ users = << >>
    /\ EngineAtRest
    /\ pos = NoPos
    /\ cur = NoCur

EngineIdle ==
    UNCHANGED <<users, pc, ui, si, balance_usd, now, sig, pos, blk, acts, seen,
                visited, faults, crashed, nfaults, cur, outcome,
                loaded, call>>

\* a thread calls append_trade(tr) and stands before "with LOCK"
CallAppend ==
    /\ Len(thr) < MaxThreads
    /\ \E kind \in 0..1 :
        thr' = Append(thr, [at |-> "with", arr |-> << >>,
                            tr |-> StoreRecord(kind, Len(thr) + 1)])
    /\ UNCHANGED <<trades_file, lock>>
    /\ EngineIdle

\* "with LOCK:" blocks until the lock is free and takes it
Acquire ==
    /\ \E t \in 1..Len(thr) :
        /\ thr[t].at = "with"
        /\ lock = 0
        /\ lock' = t
        /\ thr' = [thr EXCEPT ![t].at = "read"]
    /\ UNCHANGED trades_file
    /\ EngineIdle

\* arr = _read(path, [])
ReadJournal ==
    /\ \E t \in 1..Len(thr), rio \in ReadOutcomes :
        /\ thr[t].at = "read"
        /\ thr' = [thr EXCEPT ![t].at = "write", ![t].arr = db_read(trades_file, rio)]
    /\ UNCHANGED <<trades_file, lock>>
    /\ EngineIdle

\* arr.append(tr); _write(path, arr)
WriteJournal ==
    /\ \E t \in 1..Len(thr), wio \in WriteOutcomes :
        /\ thr[t].at = "write"
        /\ trades_file' = db_write(trades_file, Append(thr[t].arr, thr[t].tr), wio)
        /\ thr' = [thr EXCEPT ![t].at = "exit", ![t].arr = << >>]
    /\ UNCHANGED lock
    /\ EngineIdle

\* the with block ends and releases the lock
Release ==
    /\ \E t \in 1..Len(thr) :
        /\ thr[t].at = "exit"
        /\ lock' = 0
        /\ thr' = [thr EXCEPT ![t].at = "returned"]
    /\ UNCHANGED trades_file
    /\ EngineIdle

NextLock ==
    \/ CallAppend
    \/ Acquire
    \/ ReadJournal
    \/ WriteJournal
    \/ Release

SpecLock == InitLock /\ [][NextLock]_vars

(***************************************************************************)
(* A reader beside the appends: read_trades takes no lock, and _write      *)
(* opens the file with mode 'w' (which empties it) before it dumps the     *)
(* list.  The disk is reliable here: only the interleaving is in question. *)
(***************************************************************************)
MaxReads == 2

SnapshotJournal == <<StoreRecord(0, 0)>>

InitSnapshot ==
    /\ trades_file = [valid |-> TRUE, data |-> SnapshotJournal]
    /\ users = << >>
    /\ EngineAtRest
    /\ pos = NoPos
    /\ cur = NoCur

\* arr = _read(path, []) of a thread that holds the lock
ReadUnderLock ==
    /\ \E t \in 1..Len(thr) :
        /\ thr[t].at = "read"
        /\ thr' = [thr EXCEPT ![t].at = "write", ![t].arr = db_read(trades_file, "ok")]
    /\ UNCHANGED <<trades_file, lock>>
    /\ EngineIdle

\* arr.append(tr); open(path, 'w'): the file is truncated to zero bytes
OpenTruncating ==
    /\ \E t \in 1..Len(thr) :
        /\ thr[t].at = "write"
        /\ trades_file' = BrokenFile
        /\ thr' = [thr EXCEPT ![t].at = "dump", ![t].arr = Append(thr[t].arr, thr[t].tr)]
    /\ UNCHANGED lock
    /\ EngineIdle

\* json.dump(data, f): the whole list is in the file when the block is left
DumpJournal ==
    /\ \E t \in 1..Len(thr) :
        /\ thr[t].at = "dump"
        /\ trades_file' = db_write(trades_file, thr[t].arr, "ok")
        /\ thr' = [thr EXCEPT ![t].at = "exit", ![t].arr = << >>]
    /\ UNCHANGED lock
    /\ EngineIdle

\* read_trades() of the positions detection, at any moment, without the lock
SnapshotRead ==
    /\ Len(seen) < MaxReads
    /\ seen' = Append(seen, read_trades(trades_file, "ok"))
    /\ UNCHANGED <<trades_file, users, pc, ui, si, balance_usd, now, sig, pos, blk,
                   acts, visited, faults, crashed, nfaults, cur, outcome>>
    /\ UNCHANGED <<lock, thr, loaded, call>>

NextSnapshot ==
    \/ CallAppend
    \/ Acquire
    \/ ReadUnderLock
    \/ OpenTruncating
    \/ DumpJournal
    \/ Release
    \/ SnapshotRead

SpecSnapshot == InitSnapshot /\ [][NextSnapshot]_vars

(***************************************************************************)
(* Account configuration                                                   *)
(***************************************************************************)
BUY_CONFIRMATION_RATIO == 66    \* in hundredths
SELL_CONFIRMATION_RATIO == 33   \* in hundredths
ORDER_PERCENT == 10
MIN_NOTIONAL == 5
DEFAULT_LEVERAGE == 3

Settings(mode, shorts, dry, symbols, trend) ==
    [TRADE_MODE |-> mode, ENABLE_SHORTS |-> shorts, DRY_RUN |-> dry,
     DISABLED_AUTH |-> FALSE,
     USE_RSI |-> TRUE, USE_EMA |-> trend, USE_MACD |-> trend, USE_OI |-> FALSE,
     BUY_CONFIRMATION_RATIO |-> BUY_CONFIRMATION_RATIO,
     SELL_CONFIRMATION_RATIO |-> SELL_CONFIRMATION_RATIO,
     ORDER_PERCENT |-> ORDER_PERCENT, ORDER_SIZE_USD |-> 0,
     QTY_PRECISION |-> 1, MIN_NOTIONAL |-> MIN_NOTIONAL,
     DEFAULT_LEVERAGE |-> DEFAULT_LEVERAGE, SYMBOLS |-> symbols]

\* users.json with one account trading one symbol, all three default
\* indicators enabled: (TRADE_MODE, ENABLE_SHORTS, DRY_RUN); the accounts
\* that only simulate, in every trade mode, are DryConfigs
ModeConfigs ==
    {<<"mixed", TRUE, FALSE>>, <<"mixed", FALSE, TRUE>>,
     <<"futures_only", TRUE, FALSE>>}

UserStores ==
    {[u \in {1} |->
        [api_key |-> "k", api_secret |-> "s",
         settings |-> Settings(c[1], c[2], c[3], <<"BTCUSDT">>, TRUE)]] :
     c \in ModeConfigs}

\* users.json with two accounts: account 1 trades two symbols, account 2
\* trades one and may have no API key; only the RSI is enabled
CycleUserStores ==
    {[u \in {1, 2} |->
        IF u = 1
        THEN [api_key |-> "k", api_secret |-> "s",
              settings |-> Settings("mixed", FALSE, FALSE, <<"BTCUSDT", "ETHUSDT">>, FALSE)]
        ELSE [api_key |-> k2, api_secret |-> "s",
              settings |-> Settings("futures_only", TRUE, FALSE, <<"BTCUSDT">>, FALSE)]] :
     k2 \in {"", "k"}}

\* with ORDER_PERCENT 10 a balance of 51 sizes an order of 5.10 USD: at
\* price 5 it is 1.02 floored to 1.0 unit (notional 5, accepted), at price 4
\* it is 1.275 floored to 1.2 units (notional 4.8, below MIN_NOTIONAL)
Balances == {0, 51}
Prices == {4, 5}

\* the equity the exchange reports for the account behind an API key: the
\* key "debt" belongs to an account whose equity can be negative
DebtBalances == {-5, 51}

ExchangeEquity(api_key) == IF api_key = "debt" THEN DebtBalances ELSE Balances

(***************************************************************************)
(* Votes                                                                   *)
(***************************************************************************)
Indicators == {"rsi", "ema", "macd", "oi"}

Enabled(settings, ind) ==
    CASE ind = "rsi" -> settings.USE_RSI
      [] ind = "ema" -> settings.USE_EMA
      [] ind = "macd" -> settings.USE_MACD
      [] ind = "oi" -> settings.USE_OI

\* what one indicator can do: RSI and OI have a neutral zone, EMA and MACD
\* always vote; any of them can raise; OI without usable data ("nodata": no
\* reply, fewer than two points) neither votes nor counts
IndicatorResults(ind) ==
    CASE ind = "rsi" -> {"buy", "sell", "abstain", "raise"}
      [] ind = "oi" -> {"buy", "sell", "abstain", "raise", "nodata"}
      [] OTHER -> {"buy", "sell", "raise"}

IndicatorOutcomes(settings) ==
    {o \in [Indicators -> {"buy", "sell", "abstain", "raise", "nodata", "off"}] :
        \A ind \in Indicators :
            IF Enabled(settings, ind) THEN o[ind] \in IndicatorResults(ind)
            ELSE o[ind] = "off"}

\* a variant in which only a buy vote counts its indicator as active
VotesActiveOnBuy(o) ==
    [buy |-> Cardinality({ind \in Indicators : o[ind] = "buy"}),
     sell |-> Cardinality({ind \in Indicators : o[ind] = "sell"}),
     active |-> Cardinality({ind \in Indicators : o[ind] = "buy"})]

\* a variant in which an indicator that abstains is not counted as active
VotesAbstainUncounted(o) ==
    [buy |-> Cardinality({ind \in Indicators : o[ind] = "buy"}),
     sell |-> Cardinality({ind \in Indicators : o[ind] = "sell"}),
     active |-> Cardinality({ind \in Indicators : o[ind] \in {"buy", "sell"}})]

\* votes["buy"], votes["sell"] and active after the four indicator blocks
Votes(o) ==
    [buy |-> Cardinality({ind \in Indicators : o[ind] = "buy"}),
     sell |-> Cardinality({ind \in Indicators : o[ind] = "sell"}),
     active |-> Cardinality({ind \in Indicators : o[ind] \in {"buy", "sell", "abstain"}})]

BuyConfirmedAtAnyRatio(settings, s) == s.buy > 0

\* buy_ratio >= buy_threshold, with buy_ratio = votes["buy"] / active
BuyConfirmed(settings, s) ==
    s.buy * 100 >= settings.BUY_CONFIRMATION_RATIO * s.active

\* sell_ratio >= sell_threshold
SellConfirmed(settings, s) ==
    s.sell * 100 >= settings.SELL_CONFIRMATION_RATIO * s.active

(***************************************************************************)
(* Order sizing                                                            *)
(***************************************************************************)
RECURSIVE Pow10(_)
Pow10(n) == IF n = 0 THEN 1 ELSE 10 * Pow10(n - 1)

QtyScale == Pow10(QtyScaleDigits)

\* a variant that sizes every order from the balance
compute_order_usd_percent_only(settings, balance) ==
    balance * settings.ORDER_PERCENT

\* compute_order_usd, in hundredths of a USD
compute_order_usd(settings, balance) ==
    IF settings.ORDER_SIZE_USD <= 0
    THEN balance * settings.ORDER_PERCENT
    ELSE settings.ORDER_SIZE_USD * 100

\* a variant that rounds the quantity up to the precision
ceil_qty(num, den, prec) ==
    IF num <= 0 THEN 0
    ELSE ((num * Pow10(prec) + den - 1) \div den) * Pow10(QtyScaleDigits - prec)

\* floor_qty(num / den, prec), in 10^-QtyScaleDigits units
floor_qty(num, den, prec) ==
    IF num <= 0 THEN 0
    ELSE ((num * Pow10(prec)) \div den) * Pow10(QtyScaleDigits - prec)

\* the sizing prologue shared by the opening blocks: the quantity, or None
\* when there is no capital or the order is below the minimum notional
SizedQty(settings, balance, price) ==
    LET order_usd == compute_order_usd(settings, balance)
        qty == IF price > 0
               THEN floor_qty(order_usd, price * 100, settings.QTY_PRECISION)
               ELSE 0
    IN IF order_usd <= 0 THEN None
       ELSE IF qty * price < settings.MIN_NOTIONAL * QtyScale THEN None
       ELSE Some(qty)

(***************************************************************************)
(* floor_qty as Python computes it, in binary floating point.  A float is  *)
(* <<m, e>> with value m * 2^e and a significand of FloatBits bits (53 in  *)
(* the interpreter); every operation rounds its exact result to the        *)
(* nearest float, ties to even.                                            *)
(***************************************************************************)
FloatBits == 5
MaxPrec == 1
MaxShift == 6

\* the float nearest to (n / d) * 2^e, for n >= 0 and d > 0
RECURSIVE RoundToFloat(_, _, _)
RoundToFloat(n, d, e) ==
    IF n = 0 THEN <<0, 0>>
    ELSE IF n >= d * 2^FloatBits THEN RoundToFloat(n, 2 * d, e + 1)
    ELSE IF n < d * 2^(FloatBits - 1) THEN RoundToFloat(2 * n, d, e - 1)
    ELSE LET m == n \div d
             r == n % d
             up == IF 2 * r > d \/ (2 * r = d /\ m % 2 = 1) THEN 1 ELSE 0
         IN IF m + up = 2^FloatBits THEN <<2^(FloatBits - 1), e + 1>>
            ELSE <<m + up, e>>

\* float(q) * f
FloatMul(a, b) == RoundToFloat(a[1] * b[1], 1, a[2] + b[2])

\* math.floor(x) of a float x >= 0: an int
FloatFloor(a) == IF a[2] >= 0 THEN a[1] * 2^a[2] ELSE a[1] \div 2^(0 - a[2])

\* floor_qty(q, prec) on floats; 10 ** int(prec) is an int, converted to a
\* float for the product; int / int is the correctly rounded quotient
floor_qty_float(q, prec) ==
    IF q[1] <= 0 THEN <<0, 0>>
    ELSE LET f == 10^prec
         IN RoundToFloat(FloatFloor(FloatMul(q, RoundToFloat(f, 1, 0))), f, 0)

\* the floats of the quantities tried: zero, the negatives and positives
\* with a full significand, from 2^(FloatBits - 1 - MaxShift) up to 2^(FloatBits - 2)
FloatInputs ==
    {<<0, 0>>}
    \cup {<<sgn * m, e>> : sgn \in {-1, 1}, m \in 2^(FloatBits - 1)..(2^FloatBits - 1),
                           e \in (0 - MaxShift)..(0 - 2)}

InitFloor ==
    /\ trades_file = EmptyFile
    /\ users = << >>
    /\ EngineAtRest
    /\ pos = NoPos
    /\ cur = NoCur

\* qty = floor_qty(qty, int(settings.get("QTY_PRECISION", 6)))
CallFloorQty ==
    /\ \E q \in FloatInputs, prec \in 0..MaxPrec :
        call' = [q |-> q, prec |-> prec, result |-> floor_qty_float(q, prec)]
    /\ UNCHANGED <<trades_file, users, pc, ui, si, balance_usd, now, sig, pos, blk,
                   acts, seen, visited, faults, crashed, nfaults, cur, outcome>>
    /\ UNCHANGED <<lock, thr, loaded>>

NextFloor == CallFloorQty

SpecFloor == InitFloor /\ [][NextFloor]_vars

(***************************************************************************)
(* Trade-mode policy: one operator per "if" block of the symbol loop.      *)
(* Each yields the action the block takes, or None.                        *)
(***************************************************************************)
Action(market, side, action, qty, reduce_only) ==
    [market |-> market, side |-> side, action |-> action, qty |-> qty,
     reduce_only |-> reduce_only]

\* a variant that opens a long on every confirmed buy, short or no short
FuturesOnlyBuyAlwaysOpens(settings, s, p, balance) ==
    IF ~BuyConfirmed(settings, s) THEN None
    ELSE LET q == SizedQty(settings, balance, s.price)
         IN IF q = None THEN None
            ELSE Some(Action("futures", "Buy", "open", q[1], FALSE))

\* futures_only, BUY signal -> close short if exists else open long
FuturesOnlyBuy(settings, s, p, balance) ==
    IF ~BuyConfirmed(settings, s) THEN None
    ELSE LET q == SizedQty(settings, balance, s.price)
         IN IF q = None THEN None
            ELSE IF p.short # None
                 THEN Some(Action("futures", "Buy", "close", q[1], TRUE))
                 ELSE Some(Action("futures", "Buy", "open", q[1], FALSE))

\* a variant that sells only to close a long and never opens a short
FuturesOnlySellClosesOnly(settings, s, p, balance) ==
    IF ~SellConfirmed(settings, s) THEN None
    ELSE LET q == SizedQty(settings, balance, s.price)
         IN IF q = None THEN None
            ELSE IF p.long # None
                 THEN Some(Action("futures", "Sell", "close", q[1], TRUE))
                 ELSE None

\* a variant that closes a long on every confirmed sell, long or no long
FuturesOnlySellAlwaysCloses(settings, s, p, balance) ==
    IF ~SellConfirmed(settings, s) THEN None
    ELSE LET q == SizedQty(settings, balance, s.price)
         IN IF q = None THEN None
            ELSE Some(Action("futures", "Sell", "close", q[1], TRUE))

\* futures_only, SELL signal -> close long if exists else open short
FuturesOnlySell(settings, s, p, balance) ==
    IF ~SellConfirmed(settings, s) THEN None
    ELSE LET q == SizedQty(settings, balance, s.price)
         IN IF q = None THEN None
            ELSE IF p.long # None
                 THEN Some(Action("futures", "Sell", "close", q[1], TRUE))
                 ELSE Some(Action("futures", "Sell", "open", q[1], FALSE))

\* mixed / spot_only: BUY -> spot buy
SpotBuy(trade_mode, settings, s, p, balance) ==
    IF ~(BuyConfirmed(settings, s) /\ p.spot = None /\ trade_mode # "futures_only")
    THEN None
    ELSE LET q == SizedQty(settings, balance, s.price)
         IN IF q = None THEN None
            ELSE Some(Action("spot", "Buy", "", q[1], FALSE))

\* CLOSE SPOT: the quantity is the one of the open record
CloseSpot(trade_mode, settings, s, p) ==
    IF ~(SellConfirmed(settings, s) /\ p.spot # None /\ trade_mode # "futures_only")
    THEN None
    ELSE IF p.spot[1].qty <= 0 THEN None
         ELSE Some(Action("spot", "Sell", "", p.spot[1].qty, FALSE))

\* a variant in which spot_only keeps to the spot market
OpenShortUnlessSpotOnly(settings, s, p, balance) ==
    IF ~(SellConfirmed(settings, s) /\ settings.ENABLE_SHORTS /\ p.short = None
         /\ Lower(settings.TRADE_MODE) # "spot_only")
    THEN None
    ELSE LET q == SizedQty(settings, balance, s.price)
         IN IF q = None THEN None
            ELSE Some(Action("futures", "Sell", "open", q[1], FALSE))

\* SHORTS via futures
OpenShort(settings, s, p, balance) ==
    IF ~(SellConfirmed(settings, s) /\ settings.ENABLE_SHORTS /\ p.short = None)
    THEN None
    ELSE LET q == SizedQty(settings, balance, s.price)
         IN IF q = None THEN None
            ELSE Some(Action("futures", "Sell", "open", q[1], FALSE))

\* a variant that closes the short with a plain order
CloseShortPlainOrder(settings, s, p) ==
    IF ~(BuyConfirmed(settings, s) /\ p.short # None) THEN None
    ELSE IF p.short[1].qty <= 0 THEN None
         ELSE Some(Action("futures", "Buy", "close", p.short[1].qty, FALSE))

\* CLOSE SHORT (buy to close)
CloseShort(settings, s, p) ==
    IF ~(BuyConfirmed(settings, s) /\ p.short # None) THEN None
    ELSE IF p.short[1].qty <= 0 THEN None
         ELSE Some(Action("futures", "Buy", "close", p.short[1].qty, TRUE))

\* a variant that takes any mode naming futures for futures_only
TradeModeByPrefix(settings) ==
    IF Lower(settings.TRADE_MODE) \in {"futures", "futures_only"}
    THEN "futures_only"
    ELSE Lower(settings.TRADE_MODE)

\* trade_mode = str(settings.get("TRADE_MODE", "mixed")).lower()
TradeMode(settings) == Lower(settings.TRADE_MODE)

NumBlocks(settings) == IF TradeMode(settings) = "futures_only" THEN 2 ELSE 4

\* a variant in which a futures_only account sells an open spot position
PolicyBlockClosingSpot(b, settings, s, p, balance) ==
    IF TradeMode(settings) = "futures_only"
    THEN CASE b = 1 -> FuturesOnlyBuy(settings, s, p, balance)
           [] b = 2 -> IF p.spot # None
                       THEN CloseSpot("mixed", settings, s, p)
                       ELSE FuturesOnlySell(settings, s, p, balance)
    ELSE CASE b = 1 -> SpotBuy(TradeMode(settings), settings, s, p, balance)
           [] b = 2 -> CloseSpot(TradeMode(settings), settings, s, p)
           [] b = 3 -> OpenShort(settings, s, p, balance)
           [] b = 4 -> CloseShort(settings, s, p)

\* the b-th block of the branch the trade mode selects
PolicyBlock(b, settings, s, p, balance) ==
    IF TradeMode(settings) = "futures_only"
    THEN CASE b = 1 -> FuturesOnlyBuy(settings, s, p, balance)
           [] b = 2 -> FuturesOnlySell(settings, s, p, balance)
    ELSE CASE b = 1 -> SpotBuy(TradeMode(settings), settings, s, p, balance)
           [] b = 2 -> CloseSpot(TradeMode(settings), settings, s, p)
           [] b = 3 -> OpenShort(settings, s, p, balance)
           [] b = 4 -> CloseShort(settings, s, p)

\* a variant whose simulated records carry no marker
MakeTradeUnmarked(c, a, s, settings, result) ==
    Trade(c.user_id, c.symbol, a.market, a.side, a.action, a.qty, s.price,
          s.timestamp, FALSE,
          IF settings.DRY_RUN THEN "none" ELSE result,
          IF a.market = "futures" /\ a.action = "open"
          THEN settings.DEFAULT_LEVERAGE ELSE 0)

\* the dict "tr" a block journals: leverage only on futures opens, result
\* only when an order was dispatched, dry only when simulated
MakeTrade(c, a, s, settings, result) ==
    Trade(c.user_id, c.symbol, a.market, a.side, a.action, a.qty, s.price,
          s.timestamp, settings.DRY_RUN,
          IF settings.DRY_RUN THEN "none" ELSE result,
          IF a.market = "futures" /\ a.action = "open"
          THEN settings.DEFAULT_LEVERAGE ELSE 0)

Event(type, rec, reduce_only) == [type |-> type, rec |-> rec, reduce_only |-> reduce_only]

(***************************************************************************)
(* The engine: run_once and analyze_and_trade_for_user, step by step       *)
(***************************************************************************)
Init ==
    /\ trades_file = EmptyFile
    /\ users \in UserStores
    /\ EngineAtRest
    /\ pos = NoPos
    /\ cur = NoCur

CurUser == users[Uids[ui]]
CurSettings == CurUser.settings
CurSymbols == CurSettings.SYMBOLS

\* c.get_balance_usdt() as the balance parsing reads it: a number, a dict
\* carrying a retCode (authorisation problem), or an exception
BalanceResults(api_key) ==
    {[kind |-> "number", value |-> b] : b \in ExchangeEquity(api_key)}
    \cup {[kind |-> "retcode", value |-> 0], [kind |-> "raise", value |-> 0]}

ParseBalance(bal) == IF bal.kind = "number" THEN bal.value ELSE 0

\* run_once: load the users, then walk them
RunOnce ==
    /\ pc \in {"idle", "done"}
    /\ pc' = "accounts"
    /\ ui' = 0
    /\ visited' = << >>
    /\ faults' = {}
    /\ UNCHANGED <<outcome, lock, thr, loaded, call>>
    /\ UNCHANGED <<trades_file, users, si, balance_usd, now, sig, pos, blk,
                   acts, seen, crashed, nfaults, cur>>

\* history mark: the exchange answered the balance call of the account with
\* an error code ("balance/auth issue")
AuthRejected(uid) == [user_id |-> uid, symbol |-> "auth"]

\* analyze_and_trade_for_user up to the symbol loop: the authorisation
\* gates return, otherwise the balance is read once
BeginAccount ==
    /\ pc = "accounts"
    /\ ui < Len(Uids)
    /\ ui' = ui + 1
    /\ si' = 0
    /\ LET u == users[Uids[ui + 1]]
       IN IF u.settings.DISABLED_AUTH \/ u.api_key = "" \/ u.api_secret = ""
          THEN UNCHANGED <<pc, balance_usd, faults, nfaults>>
          ELSE /\ pc' = "symbols"
               /\ \E bal \in BalanceResults(u.api_key) :
                    /\ balance_usd' = ParseBalance(bal)
                    /\ IF bal.kind = "retcode"
                       THEN /\ nfaults < MaxFaults
                            /\ nfaults' = nfaults + 1
                            /\ faults' = faults \cup {AuthRejected(Uids[ui + 1])}
                       ELSE UNCHANGED <<faults, nfaults>>
    /\ UNCHANGED <<outcome, lock, thr, loaded, call>>
    /\ UNCHANGED <<trades_file, users, now, sig, pos, blk, acts, seen, visited,
                   crashed, cur>>

\* analyze_and_trade_for_user raises before its symbol loop (loading the
\* users, building the client): the except of run_once moves on
AccountRaises ==
    /\ pc = "accounts"
    /\ ui < Len(Uids)
    /\ nfaults < MaxFaults
    /\ nfaults' = nfaults + 1
    /\ ui' = ui + 1
    /\ faults' = faults \cup {[user_id |-> Uids[ui + 1], symbol |-> ""]}
    /\ UNCHANGED <<outcome, lock, thr, loaded, call>>
    /\ UNCHANGED <<trades_file, users, pc, si, balance_usd, now, sig, pos, blk,
                   acts, seen, visited, crashed, cur>>

\* the account loop of run_once is exhausted
EndAccounts ==
    /\ pc = "accounts"
    /\ ui = Len(Uids)
    /\ pc' = "done"
    /\ UNCHANGED <<outcome, lock, thr, loaded, call>>
    /\ UNCHANGED <<trades_file, users, ui, si, balance_usd, now, sig, pos, blk,
                   acts, seen, visited, faults, crashed, nfaults, cur>>

\* the next iteration of "for symbol in symbols" starts
NextSymbol ==
    /\ pc = "symbols"
    /\ si < Len(CurSymbols)
    /\ si' = si + 1
    /\ cur' = [user_id |-> Uids[ui], symbol |-> CurSymbols[si + 1]]
    /\ visited' = Append(visited, cur')
    /\ UNCHANGED <<lock, thr, loaded, call>>
    /\ UNCHANGED <<trades_file, users, ui, balance_usd, now, pos, blk,
                   acts, seen, crashed>>

\* fetch_ohlcv or the normalisation raises: the except of the symbol loop
SymbolFetchRaises ==
    /\ NextSymbol
    /\ nfaults < MaxFaults
    /\ nfaults' = nfaults + 1
    /\ faults' = faults \cup {cur'}
    /\ outcome' = NoOutcome
    /\ UNCHANGED <<pc, sig>>

\* no candles ("continue")
SymbolNoData ==
    /\ NextSymbol
    /\ outcome' = NoOutcome
    /\ UNCHANGED <<pc, sig, faults, nfaults>>

\* the indicator blocks with outcomes o, then "if active == 0: continue"
CastVotes(o) ==
    LET v == Votes(o)
    IN IF v.active = 0
       THEN UNCHANGED <<pc, sig>>
       ELSE /\ pc' = "detect"
            /\ sig' = [buy |-> v.buy, sell |-> v.sell, active |-> v.active,
                       price |-> 0, timestamp |-> << >>]

\* candles arrive, the enabled indicators run and vote; no active
\* indicator skips the symbol
SymbolVotes ==
    /\ NextSymbol
    /\ \E o \in IndicatorOutcomes(CurSettings) : CastVotes(o)
    /\ outcome' = NoOutcome
    /\ UNCHANGED <<faults, nfaults>>

\* the same step, with the history variable keeping what each indicator did
SymbolVotesTraced ==
    /\ NextSymbol
    /\ \E o \in IndicatorOutcomes(CurSettings) : CastVotes(o) /\ outcome' = o
    /\ UNCHANGED <<faults, nfaults>>

\* the symbol loop of the account is exhausted
EndSymbols ==
    /\ pc = "symbols"
    /\ si = Len(CurSymbols)
    /\ pc' = "accounts"
    /\ balance_usd' = 0
    /\ cur' = NoCur
    /\ outcome' = NoOutcome
    /\ UNCHANGED <<lock, thr, loaded, call>>
    /\ UNCHANGED <<trades_file, users, ui, si, now, sig, pos, blk,
                   acts, seen, visited, faults, crashed, nfaults>>

ReadsOf(file, ios) == [p \in {"spot", "short", "long"} |-> read_trades(file, ios[p])]

\* the first block from b on whose conditions hold and whose sizing passes;
\* the blocks before it only log.  NumBlocks + 1 when there is none.
RECURSIVE NextActing(_, _, _, _, _)
NextActing(b, settings, s, p, balance) ==
    IF b > NumBlocks(settings) THEN b
    ELSE IF PolicyBlock(b, settings, s, p, balance) # None THEN b
    ELSE NextActing(b + 1, settings, s, p, balance)

\* positions detection, then price and timestamp; control runs to the first
\* block that acts.  The clock has moved on since the last evaluation that
\* journaled something; timestamps that never reach the journal are not
\* told apart.
Detect ==
    /\ pc = "detect"
    /\ \E ios \in [{"spot", "short", "long"} -> ReadOutcomes], price \in Prices :
        LET p == DetectPositions(trades_file, cur.user_id, cur.symbol, ios)
            s == [sig EXCEPT !.price = price, !.timestamp = IsoFormat(now + 1)]
            b == NextActing(1, CurSettings, s, p, balance_usd)
            acting == b <= NumBlocks(CurSettings)
            failed == Cardinality({q \in DOMAIN ios : ios[q] # "ok"})
        IN /\ nfaults + failed <= MaxFaults
           /\ acting => now < MaxClock
           /\ now' = IF acting THEN now + 1 ELSE now
           /\ nfaults' = nfaults + failed
           /\ pos' = p
           /\ seen' = ReadsOf(trades_file, ios)
           /\ sig' = s
           /\ blk' = b
           /\ pc' = IF b > NumBlocks(CurSettings) THEN "evaluated" ELSE "policy"
    /\ outcome' = NoOutcome
    /\ UNCHANGED <<lock, thr, loaded, call>>
    /\ UNCHANGED <<trades_file, users, ui, si, balance_usd, acts, visited,
                   faults, crashed, cur>>

CurAction == PolicyBlock(blk, CurSettings, sig, pos, balance_usd)

\* control leaves the current block and runs to the next one that acts
Advance ==
    LET b == NextActing(blk + 1, CurSettings, sig, pos, balance_usd)
    IN /\ blk' = b
       /\ pc' = IF b > NumBlocks(CurSettings) THEN "evaluated" ELSE "policy"

\* a variant in which every order is paid out of the balance read at the start
SpendBalance ==
    balance_usd' = balance_usd
                   - (CurAction[1].qty * sig.price) \div QtyScale

\* balance_usd is a local assigned once, before the symbol loop: no block
\* of the loop assigns it or reads the balance again
KeepBalance == UNCHANGED balance_usd

\* what notify_trade_to_user can meet: the message is sent, or the sending
\* fails (no chat, HTTP error, exception) and the try of the notifier keeps it
NotifyOutcomes == {"sent", "failed"}

\* a variant in which the notifier's exception leaves the evaluation
PolicyStepNotifyRaises(ntfs) ==
    /\ pc = "policy"
    /\ \E res \in {"ok", "rejected"}, rio \in ReadOutcomes, wio \in WriteOutcomes,
          ntf \in ntfs :
        LET a == CurAction[1]
            upset == (IF res = "ok" \/ CurSettings.DRY_RUN THEN 0 ELSE 1)
                     + (IF rio = "ok" /\ wio = "ok" THEN 0 ELSE 1)
                     + (IF ntf = "sent" THEN 0 ELSE 1)
            tr == MakeTrade(cur, a, sig, CurSettings, res)
        IN /\ CurSettings.DRY_RUN => res = "ok"
           /\ nfaults + upset <= MaxFaults
           /\ nfaults' = nfaults + upset
           /\ trades_file' = append_trade(trades_file, tr, rio, wio)
           /\ acts' = acts
                      \o (IF CurSettings.DRY_RUN THEN << >>
                          ELSE << Event("order", tr, a.reduce_only) >>)
                      \o << Event("append", tr, a.reduce_only),
                            Event(IF ntf = "sent" THEN "notify" ELSE "notify_failed",
                                  tr, a.reduce_only) >>
           /\ IF ntf = "sent"
              THEN Advance /\ UNCHANGED faults
              ELSE /\ faults' = faults \cup {cur}
                   /\ pc' = "evaluated"
                   /\ UNCHANGED blk
    /\ UNCHANGED <<outcome, lock, thr, loaded, call>>
    /\ UNCHANGED <<users, ui, si, balance_usd, now, sig, pos, seen, visited,
                   crashed, cur>>

\* the block acts: dispatch unless DRY_RUN, then append_trade, then notify;
\* ntfs are the outcomes of the notifier that the step distinguishes
PolicyStep(ntfs) ==
    /\ pc = "policy"
    /\ \E res \in {"ok", "rejected"}, rio \in ReadOutcomes, wio \in WriteOutcomes,
          ntf \in ntfs :
        LET a == CurAction[1]
            upset == (IF res = "ok" \/ CurSettings.DRY_RUN THEN 0 ELSE 1)
                     + (IF rio = "ok" /\ wio = "ok" THEN 0 ELSE 1)
                     + (IF ntf = "sent" THEN 0 ELSE 1)
            tr == MakeTrade(cur, a, sig, CurSettings, res)
        IN /\ CurSettings.DRY_RUN => res = "ok"
           /\ nfaults + upset <= MaxFaults
           /\ nfaults' = nfaults + upset
           /\ trades_file' = append_trade(trades_file, tr, rio, wio)
           /\ acts' = acts
                      \o (IF CurSettings.DRY_RUN THEN << >>
                          ELSE << Event("order", tr, a.reduce_only) >>)
                      \o << Event("append", tr, a.reduce_only),
                            Event(IF ntf = "sent" THEN "notify" ELSE "notify_failed",
                                  tr, a.reduce_only) >>
    /\ Advance
    /\ KeepBalance
    /\ UNCHANGED <<outcome, lock, thr, loaded, call>>
    /\ UNCHANGED <<users, ui, si, now, sig, pos, seen, visited,
                   faults, crashed, cur>>

\* the block acts; whether the message went out leaves no trace in the state
PolicyAct == PolicyStep({"sent"})

\* the block acts and the history tells a failed notification from a sent one
PolicyActNotifying == PolicyStep(NotifyOutcomes)

\* a variant in which the raise leaves the symbol loop of the account
PolicyRaiseEndsAccount ==
    /\ pc = "policy"
    /\ ~CurSettings.DRY_RUN
    /\ nfaults < MaxFaults
    /\ nfaults' = nfaults + 1
    /\ acts' = Append(acts, Event("order_raised",
                                  MakeTrade(cur, CurAction[1], sig, CurSettings, "none"),
                                  CurAction[1].reduce_only))
    /\ faults' = faults \cup {cur}
    /\ pc' = "evaluated"
    /\ si' = Len(CurSymbols)
    /\ UNCHANGED <<outcome, lock, thr, loaded, call>>
    /\ UNCHANGED <<trades_file, users, ui, balance_usd, now, sig, pos, blk,
                   seen, visited, crashed, cur>>

\* the gateway call raises (timeout, unparseable reply): the except of the
\* symbol loop ends the evaluation
PolicyRaise ==
    /\ pc = "policy"
    /\ ~CurSettings.DRY_RUN
    /\ nfaults < MaxFaults
    /\ nfaults' = nfaults + 1
    /\ acts' = Append(acts, Event("order_raised",
                                  MakeTrade(cur, CurAction[1], sig, CurSettings, "none"),
                                  CurAction[1].reduce_only))
    /\ faults' = faults \cup {cur}
    /\ pc' = "evaluated"
    /\ UNCHANGED <<outcome, lock, thr, loaded, call>>
    /\ UNCHANGED <<trades_file, users, ui, si, balance_usd, now, sig, pos, blk,
                   seen, visited, crashed, cur>>

\* the iteration ends; its locals die
EndSymbol ==
    /\ pc = "evaluated"
    /\ pc' = "symbols"
    /\ sig' = NoSig
    /\ pos' = NoPos
    /\ blk' = 0
    /\ acts' = << >>
    /\ seen' = << >>
    /\ cur' = NoCur
    /\ UNCHANGED <<outcome, lock, thr, loaded, call>>
    /\ UNCHANGED <<trades_file, users, ui, si, balance_usd, now, visited, faults,
                   crashed, nfaults>>

\* the process dies and main.py starts it again: nothing in memory survives
Restart ==
    /\ pc' = "idle"
    /\ ui' = 0
    /\ si' = 0
    /\ balance_usd' = 0
    /\ sig' = NoSig
    /\ pos' = NoPos
    /\ blk' = 0
    /\ acts' = << >>
    /\ seen' = << >>
    /\ visited' = << >>
    /\ faults' = {}
    /\ crashed' = TRUE
    /\ nfaults' = nfaults + 1
    /\ cur' = NoCur
    /\ outcome' = NoOutcome
    /\ UNCHANGED <<lock, thr, loaded, call>>
    /\ UNCHANGED <<users, now>>

Crash ==
    /\ pc \notin {"idle", "done"}
    /\ nfaults < MaxFaults
    /\ Restart
    /\ UNCHANGED trades_file

\* the process dies inside _write, between the truncating open and the dump
CrashInWrite ==
    /\ pc = "policy"
    /\ nfaults < MaxFaults
    /\ Restart
    /\ trades_file' = BrokenFile

Next ==
    \/ RunOnce
    \/ BeginAccount
    \/ AccountRaises
    \/ EndAccounts
    \/ SymbolFetchRaises
    \/ SymbolNoData
    \/ SymbolVotes
    \/ EndSymbols
    \/ Detect
    \/ PolicyAct
    \/ PolicyRaise
    \/ EndSymbol
    \/ Crash
    \/ CrashInWrite

Spec == Init /\ [][Next]_vars

\* the same engine over a store of two accounts
InitCycle ==
    /\ trades_file = EmptyFile
    /\ users \in CycleUserStores
    /\ EngineAtRest
    /\ pos = NoPos
    /\ cur = NoCur

SpecCycle == InitCycle /\ [][Next]_vars

\* users.json with one account and every combination of the four USE_*
\* switches: f = (USE_RSI, USE_EMA, USE_MACD, USE_OI)
VoteUserStores ==
    {[u \in {1} |->
        [api_key |-> "k", api_secret |-> "s",
         settings |-> [Settings("mixed", FALSE, FALSE, <<"BTCUSDT">>, TRUE)
                           EXCEPT !.USE_RSI = f[1], !.USE_EMA = f[2],
                                  !.USE_MACD = f[3], !.USE_OI = f[4]]]] :
     f \in [1..4 -> BOOLEAN]}

InitVotes ==
    /\ trades_file = EmptyFile
    /\ users \in VoteUserStores
    /\ EngineAtRest
    /\ pos = NoPos
    /\ cur = NoCur

NextVotes ==
    \/ RunOnce
    \/ BeginAccount
    \/ AccountRaises
    \/ EndAccounts
    \/ SymbolFetchRaises
    \/ SymbolNoData
    \/ SymbolVotesTraced
    \/ EndSymbols
    \/ Detect
    \/ PolicyAct
    \/ PolicyRaise
    \/ EndSymbol
    \/ Crash
    \/ CrashInWrite

SpecVotes == InitVotes /\ [][NextVotes]_vars

\* users.json with one account that only simulates, in each trade mode:
\* (TRADE_MODE, ENABLE_SHORTS)
DryConfigs == {<<"mixed", FALSE>>, <<"futures_only", FALSE>>, <<"spot_only", TRUE>>}

DryUserStores ==
    {[u \in {1} |->
        [api_key |-> "k", api_secret |-> "s",
         settings |-> Settings(c[1], c[2], TRUE, <<"BTCUSDT">>, TRUE)]] :
     c \in DryConfigs}

InitDry ==
    /\ trades_file = EmptyFile
    /\ users \in DryUserStores
    /\ EngineAtRest
    /\ pos = NoPos
    /\ cur = NoCur

\* with DRY_RUN set no block calls the gateway, so no order call can raise
NextDry ==
    \/ RunOnce
    \/ BeginAccount
    \/ AccountRaises
    \/ EndAccounts
    \/ SymbolFetchRaises
    \/ SymbolNoData
    \/ SymbolVotes
    \/ EndSymbols
    \/ Detect
    \/ PolicyAct
    \/ EndSymbol
    \/ Crash
    \/ CrashInWrite

\* the engine over the corners of the configuration: a mixed account whose
\* fixed order of 3 USD buys less than one unit, with whole-unit precision
\* and no minimum notional; an account with the profile store's default
\* TRADE_MODE 'FUTURES'; a futures_only account.  The journal is empty or
\* holds a spot buy left from an earlier configuration.  Only the RSI is
\* enabled.
ModesUserStores ==
    {[u \in {1} |-> [api_key |-> "k", api_secret |-> "s", settings |-> st]] :
     st \in {[Settings("mixed", TRUE, FALSE, <<"BTCUSDT">>, FALSE)
                 EXCEPT !.ORDER_SIZE_USD = 3, !.MIN_NOTIONAL = 0, !.QTY_PRECISION = 0],
             Settings("FUTURES", TRUE, FALSE, <<"BTCUSDT">>, FALSE),
             Settings("futures_only", TRUE, FALSE, <<"BTCUSDT">>, FALSE)}}

InitModes ==
    /\ trades_file \in {EmptyFile, [valid |-> TRUE, data |-> SnapshotJournal]}
    /\ users \in ModesUserStores
    /\ EngineAtRest
    /\ pos = NoPos
    /\ cur = NoCur

SpecModes == InitModes /\ [][Next]_vars

\* the loop of the engine never stops: as long as a step is possible one
\* is taken
SpecLive == Init /\ [][Next]_vars /\ WF_vars(Next)

SpecDry == InitDry /\ [][NextDry]_vars

\* the engine over accounts with and without a fixed order size, in mixed
\* and in futures_only mode, on an exchange account that can be in debt;
\* only the RSI is enabled
FIXED_ORDER_SIZE_USD == 6

SizingConfigs ==
    {<<mode, fixed>> : mode \in {"mixed", "futures_only"},
                       fixed \in {0, FIXED_ORDER_SIZE_USD}}

SizingUserStores ==
    {[u \in {1} |->
        [api_key |-> "debt", api_secret |-> "s",
         settings |-> [Settings(c[1], TRUE, FALSE, <<"BTCUSDT">>, FALSE)
                          EXCEPT !.ORDER_SIZE_USD = c[2]]]] :
     c \in SizingConfigs}

InitSizing ==
    /\ trades_file = EmptyFile
    /\ users \in SizingUserStores
    /\ EngineAtRest
    /\ pos = NoPos
    /\ cur = NoCur

SpecSizing == InitSizing /\ [][Next]_vars

\* the engine with the notifier's outcome in the history: one account that
\* trades two symbols in mixed mode with shorts; only the RSI is enabled
NotifyUserStores ==
    {[u \in {1} |->
        [api_key |-> "k", api_secret |-> "s",
         settings |-> Settings("mixed", TRUE, FALSE, <<"BTCUSDT", "ETHUSDT">>, FALSE)]]}

InitNotify ==
    /\ trades_file = EmptyFile
    /\ users \in NotifyUserStores
    /\ EngineAtRest
    /\ pos = NoPos
    /\ cur = NoCur

NextNotify ==
    \/ RunOnce
    \/ BeginAccount
    \/ AccountRaises
    \/ EndAccounts
    \/ SymbolFetchRaises
    \/ SymbolNoData
    \/ SymbolVotes
    \/ EndSymbols
    \/ Detect
    \/ PolicyActNotifying
    \/ PolicyRaise
    \/ EndSymbol
    \/ Crash
    \/ CrashInWrite

SpecNotify == InitNotify /\ [][NextNotify]_vars

(***************************************************************************)
(* The profile store beside the engine: analyze_and_trade_for_user loads   *)
(* users.json, fills in defaults and saves the whole store back, while the *)
(* bot's process changes a setting with db_json.update_setting             *)
(***************************************************************************)
ProfileKeys == {"DRY_RUN", "ENABLE_SHORTS", "USE_OI"}

InitProfile ==
    /\ trades_file = EmptyFile
    /\ users \in UserStores
    /\ EngineAtRest
    /\ pos = NoPos
    /\ cur = NoCur

ProfileFrame ==
    UNCHANGED <<trades_file, ui, si, balance_usd, now, sig, pos, blk, acts, seen,
                visited, faults, crashed, nfaults, cur, outcome, lock, thr, call>>

\* users = load_users(); user = users[str(uid)]
LoadUsers ==
    /\ pc = "idle"
    /\ loaded = << >>
    /\ loaded' = users
    /\ pc' = "loaded"
    /\ UNCHANGED users
    /\ ProfileFrame

\* _ensure_user_defaults(users, uid) adds only the keys that are missing
\* (none in a complete record); save_users(users) writes the local
\* dictionary over the whole file
SaveUsers ==
    /\ pc = "loaded"
    /\ users' = loaded
    /\ pc' = "saved"
    /\ UNCHANGED loaded
    /\ ProfileFrame

\* settings = user["settings"]: the rest of the account's evaluation works
\* on the local dictionary and returns
UseSettings ==
    /\ pc = "saved"
    /\ pc' = "idle"
    /\ loaded' = << >>
    /\ UNCHANGED users
    /\ ProfileFrame

\* db_json.update_setting(uid, key, value) in the bot's process
UpdateSetting ==
    /\ \E uid \in DOMAIN users, key \in ProfileKeys, value \in BOOLEAN :
        /\ users[uid].settings[key] # value
        /\ users' = [users EXCEPT ![uid].settings[key] = value]
    /\ UNCHANGED <<pc, loaded>>
    /\ ProfileFrame

NextProfile ==
    \/ LoadUsers
    \/ SaveUsers
    \/ UseSettings
    \/ UpdateSetting

SpecProfile == InitProfile /\ [][NextProfile]_vars

(***************************************************************************)
(* What one symbol evaluation did, read off its history                    *)
(***************************************************************************)
Appended == SelectSeq(acts, LAMBDA e : e.type = "append")

InEvaluation == pc \in {"policy", "evaluated"}

\* the gateway's answer is an input of the evaluation, not a decision of it
Norm(e) == [e EXCEPT !.rec.result = "none"]

NormSeq(es) == [i \in 1..Len(es) |-> Norm(es[i])]

\* the events the blocks before block b produce from the inputs alone
RECURSIVE PlanEvents(_, _, _, _, _, _)
PlanEvents(b, c, settings, s, p, balance) ==
    IF b <= 1 THEN << >>
    ELSE LET a == PolicyBlock(b - 1, settings, s, p, balance)
             before == PlanEvents(b - 1, c, settings, s, p, balance)
         IN IF a = None THEN before
            ELSE LET tr == MakeTrade(c, a[1], s, settings, "none")
                 IN before
                    \o (IF settings.DRY_RUN THEN << >>
                        ELSE << Event("order", tr, a[1].reduce_only) >>)
                    \o << Event("append", tr, a[1].reduce_only),
                          Event("notify", tr, a[1].reduce_only) >>

\* acts without the call that raised, if one did
Completed ==
    IF acts # << >> /\ acts[Len(acts)].type = "order_raised"
    THEN SubSeq(acts, 1, Len(acts) - 1)
    ELSE acts

RECURSIVE ExpectedVisits(_)
ExpectedVisits(n) ==
    IF n = 0 THEN << >>
    ELSE LET u == users[Uids[n]]
             syms == u.settings.SYMBOLS
         IN ExpectedVisits(n - 1)
            \o (IF \/ u.settings.DISABLED_AUTH \/ u.api_key = "" \/ u.api_secret = ""
                   \/ [user_id |-> Uids[n], symbol |-> ""] \in faults
                THEN << >>
                ELSE [i \in 1..Len(syms) |-> [user_id |-> Uids[n], symbol |-> syms[i]]])

\* C5: when run_once ends, every account that passes the authorisation gates
\* and did not itself raise before its symbol loop has had each of its
\* configured symbols evaluated exactly once, in order, whatever raised
\* during the evaluation of another symbol or of another account.
C5_ErrorsIsolated ==
    pc = "done" => visited = ExpectedVisits(Len(Uids))

\* the first symbol of account 1 raised, and the cycle still evaluated the
\* second symbol and account 2
C5_Witness ==
    /\ pc = "done"
    /\ [user_id |-> 1, symbol |-> "BTCUSDT"] \in faults
    /\ visited = << [user_id |-> 1, symbol |-> "BTCUSDT"],
                    [user_id |-> 1, symbol |-> "ETHUSDT"],
                    [user_id |-> 2, symbol |-> "BTCUSDT"] >>

\* C6: no order is sent and no record is appended for an action whose
\* qty * price is below MIN_NOTIONAL, opens and closes alike.
C6_MinNotionalEverywhere ==
    InEvaluation =>
        \A i \in 1..Len(acts) :
            acts[i].rec.qty * acts[i].rec.price >= CurSettings.MIN_NOTIONAL * QtyScale

\* C7: in futures_only mode a long is opened only when no long is open and
\* a short only when no short is open.
C7_FuturesOnlyNoSecondOpen ==
    (InEvaluation /\ TradeMode(CurSettings) = "futures_only") =>
        \A i \in 1..Len(acts) :
            LET r == acts[i].rec
            IN (r.market_type = "futures" /\ r.action = "open") =>
                   IF Lower(r.side) = "buy" THEN pos.long = None ELSE pos.short = None

\* C8: in mixed mode a futures short is opened only if no spot position is
\* open, so a spot close and a futures-short open never both occur in the
\* same symbol evaluation.
C8_MixedSellOneAction ==
    (InEvaluation /\ TradeMode(CurSettings) = "mixed") =>
        /\ \A i \in 1..Len(acts) :
               LET r == acts[i].rec
               IN (r.market_type = "futures" /\ r.action = "open" /\ Lower(r.side) = "sell")
                      => pos.spot = None
        /\ ~(\E i, j \in 1..Len(acts) :
                /\ acts[i].rec.market_type = "spot" /\ Lower(acts[i].rec.side) = "sell"
                /\ acts[j].rec.market_type = "futures" /\ acts[j].rec.action = "open"
                /\ Lower(acts[j].rec.side) = "sell")

\* C9: one symbol evaluation journals at most one record with side buy and
\* at most one record with side sell.
C9_OneRecordPerDirection ==
    InEvaluation =>
        \A d \in {"buy", "sell"} :
            Cardinality({i \in 1..Len(Appended) : Lower(Appended[i].rec.side) = d}) <= 1

\* C10: a buy-side order or record is produced only if
\* votes.buy / active >= BUY_CONFIRMATION_RATIO and a sell-side one only if
\* votes.sell / active >= SELL_CONFIRMATION_RATIO, each threshold on its own
\* ratio.
C10_ThresholdsGateSides ==
    InEvaluation =>
        \A i \in 1..Len(acts) :
            IF Lower(acts[i].rec.side) = "buy"
            THEN sig.buy * 100 >= CurSettings.BUY_CONFIRMATION_RATIO * sig.active
            ELSE sig.sell * 100 >= CurSettings.SELL_CONFIRMATION_RATIO * sig.active

\* both directions confirmed on 2 buy votes and 1 sell vote of 3, and both acted
C10_Witness ==
    /\ pc = "evaluated"
    /\ sig.buy = 2 /\ sig.sell = 1 /\ sig.active = 3
    /\ \E i, j \in 1..Len(Appended) :
        Lower(Appended[i].rec.side) = "buy" /\ Lower(Appended[j].rec.side) = "sell"

\* the events of the evaluation on one side of the market
SideEvents(d) == SelectSeq(acts, LAMBDA e : Lower(e.rec.side) = d)

\* the gateway call of a block on side d raised
Raised(d) == \E i \in 1..Len(acts) :
    acts[i].type = "order_raised" /\ Lower(acts[i].rec.side) = d

IsFlooredQty(q, usd, price, prec) ==
    LET step == Pow10(QtyScaleDigits - prec)
    IN /\ q % step = 0
       /\ q * price * 100 <= usd * QtyScale
       /\ usd * QtyScale < (q + step) * price * 100

ActionOf(e) == <<e.rec.market_type, e.rec.side, e.rec.action, e.rec.qty, e.rec.price>>

ActionsOf(es) ==
    LET app == SelectSeq(es, LAMBDA e : e.type = "append")
    IN [i \in 1..Len(app) |-> ActionOf(app[i])]

\* C14: with DRY_RUN true, at every point of an evaluation, the records
\* journaled so far are the actions (market, side, action, quantity, price)
\* the same journal, configuration and signal yield with DRY_RUN false,
\* each marked as simulated and without a result, and no order was sent to
\* the gateway.
C14_DryRunSameActions ==
    (InEvaluation /\ CurSettings.DRY_RUN) =>
        /\ \A i \in 1..Len(acts) : acts[i].type \in {"append", "notify"}
        /\ \A i \in 1..Len(Appended) :
               Appended[i].rec.dry /\ Appended[i].rec.result = "none"
        /\ ActionsOf(acts)
            = ActionsOf(PlanEvents(blk, cur, [CurSettings EXCEPT !.DRY_RUN = FALSE],
                                   sig, pos, balance_usd))

\* a simulated futures open was journaled
C14_Witness ==
    /\ pc = "evaluated"
    /\ CurSettings.DRY_RUN
    /\ \E i \in 1..Len(Appended) :
        /\ Appended[i].rec.dry
        /\ Appended[i].rec.market_type = "futures"
        /\ Appended[i].rec.action = "open"

\* C15: at every point of an evaluation in spot_only mode the events so far
\* are exactly those mixed mode yields from the same journal, configuration
\* and signal, the futures short opened on a confirmed sell with shorting
\* enabled included.
C15_SpotOnlyActsAsMixed ==
    (InEvaluation /\ TradeMode(CurSettings) = "spot_only") =>
        NormSeq(Completed)
            = PlanEvents(blk, cur, [CurSettings EXCEPT !.TRADE_MODE = "mixed"],
                         sig, pos, balance_usd)

\* a spot_only account opened a futures short
C15_Witness ==
    /\ pc = "evaluated"
    /\ TradeMode(CurSettings) = "spot_only"
    /\ CurSettings.ENABLE_SHORTS
    /\ \E i \in 1..Len(Appended) :
        /\ Appended[i].rec.market_type = "futures"
        /\ Lower(Appended[i].rec.side) = "sell"
        /\ Appended[i].rec.action = "open"

\* the step is the indicator blocks of one symbol running to their end
VoteCast == pc = "symbols" /\ si' = si + 1 /\ outcome' # NoOutcome

\* C16: whatever indicators are enabled and whatever each of them does,
\* the vote either leaves active > 0 with buy_votes + sell_votes <= active
\* (so buy_ratio + sell_ratio <= 1), or leaves active = 0 and then the
\* symbol is skipped: the loop stays at its head, no vote reaches the
\* policy, nothing is sent and the journal is as it was.
C16_VotesWithinActive ==
    [][VoteCast =>
        IF pc' = "detect"
        THEN /\ sig'.active > 0
             /\ sig'.buy + sig'.sell <= sig'.active
        ELSE /\ pc' = "symbols"
             /\ \A ind \in Indicators : outcome'[ind] \notin {"buy", "sell", "abstain"}
             /\ sig' = NoSig
             /\ acts' = << >>
             /\ blk' = 0
             /\ trades_file' = trades_file]_vars

\* every enabled indicator raised or had no data: the symbol was skipped
C16_Witness ==
    /\ pc = "symbols"
    /\ outcome # NoOutcome
    /\ sig = NoSig
    /\ \E ind \in Indicators : Enabled(CurSettings, ind) /\ outcome[ind] = "raise"
    /\ \E ind \in Indicators : Enabled(CurSettings, ind) /\ outcome[ind] = "nodata"

\* the enabled indicators whose block ran to its end: it did not raise, and
\* the open-interest block had its two data points
Executed == {ind \in Indicators :
                Enabled(CurSettings, ind) /\ outcome[ind] \notin {"raise", "nodata"}}

C18_FailedDispatchJournaled ==
    InEvaluation =>
        \A i \in 1..Len(acts) :
            acts[i].type \in {"order", "order_raised"} =>
                \E j \in (i + 1)..Len(acts) :
                    /\ acts[j].type = "append"
                    /\ Norm(acts[j]) = Norm([acts[i] EXCEPT !.type = "append"])
                    /\ (acts[i].type = "order"
                          => acts[j].rec.result = acts[i].rec.result)

\* C19: an account whose credentials are missing, or whose balance call
\* was answered with an error code, sends no order and appends no record
\* for any of its symbols in that cycle.
C19_BadCredentialsSkipAccount ==
    (/\ InEvaluation
     /\ \/ CurUser.api_key = "" \/ CurUser.api_secret = ""
        \/ AuthRejected(cur.user_id) \in faults) => acts = << >>

\* the threads between taking and releasing the lock
InCriticalSection == {t \in 1..Len(thr) : thr[t].at \in {"read", "write", "exit"}}

\* C20: in every interleaving of concurrent appends at most one thread is
\* inside the read-modify-write, and once every call has returned the
\* journal holds the record of each call exactly once.
C20_AppendsExclusiveAndKept ==
    /\ Cardinality(InCriticalSection) <= 1
    /\ InCriticalSection # {} => InCriticalSection = {lock}
    /\ (Len(thr) >= 2 /\ \A t \in 1..Len(thr) : thr[t].at = "returned") =>
           \A t \in 1..Len(thr) :
               Len(SelectSeq(Journal(trades_file), LAMBDA r : r = thr[t].tr)) = 1

\* C21: a journal read that runs beside an append sees the journal as it
\* was before the append or as it is after it: every record the journal
\* held when the appends began is in every list that read_trades returned
\* (never an empty or truncated journal).
C21_ReadsSeeSnapshot ==
    \A i \in 1..Len(seen) : IsSubseq(SnapshotJournal, seen[i])

\* C22: during a cycle the engine performs no write to the profile store:
\* no step of the engine changes users.json, so a setting changed by the
\* bot after the engine's load is still there after the engine's step.
C22_EngineLeavesProfiles == [][pc' # pc => users' = users]_vars

NotifiedNow ==
    /\ Len(acts') > Len(acts)
    /\ acts'[Len(acts')].type \in {"notify", "notify_failed"}

\* C23: notification follows journaling and is best-effort: the notifier is
\* called for a record only right after the append of that same record, and
\* when it fails the journal is what the append made of it, no fault is
\* recorded for the symbol, and the evaluation moves on to the block that
\* would have come next had the message been sent.
C23_NotifyAfterAppendSwallowed ==
    [][(pc = "policy" /\ NotifiedNow) =>
        LET n == Len(acts')
            e == acts'[n]
        IN /\ n >= 2
           /\ acts'[n - 1].type = "append"
           /\ acts'[n - 1].rec = e.rec
           /\ \E rio \in ReadOutcomes, wio \in WriteOutcomes :
                trades_file' = append_trade(trades_file, e.rec, rio, wio)
           /\ (e.type = "notify_failed" =>
                 /\ faults' = faults
                 /\ blk' = NextActing(blk + 1, CurSettings, sig, pos, balance_usd)
                 /\ pc' = IF blk' > NumBlocks(CurSettings) THEN "evaluated" ELSE "policy"
                 /\ <<ui', si', visited'>> = <<ui, si, visited>>)]_vars

\* a notification failed after the first of two actions of an evaluation,
\* and the second action was carried out
C23_Witness ==
    /\ pc = "evaluated"
    /\ \E i \in 1..Len(acts) :
        /\ acts[i].type = "notify_failed"
        /\ \E j \in (i + 1)..Len(acts) : acts[j].type = "append"
    /\ Len(Journal(trades_file)) >= 2

AccountInProgress == {"symbols", "detect", "policy", "evaluated"}

SizedFromBalance(e) ==
    (e.rec.action = "open" \/ (e.rec.market_type = "spot" /\ Lower(e.rec.side) = "buy"))

\* C24: within one cycle every sized action of an account is sized from the
\* balance read once at the start of the account's processing: while the
\* account is being processed no step changes balance_usd, and the quantity
\* of every opening order, on any symbol and in either direction, is
\* balance * ORDER_PERCENT / 100 / price floored to QTY_PRECISION decimals,
\* whatever was ordered earlier in the cycle.
C24_OneBalancePerAccount ==
    [][/\ (pc \in AccountInProgress /\ pc' \in AccountInProgress /\ ui' = ui)
            => balance_usd' = balance_usd
       /\ (pc = "policy" /\ Len(acts') > Len(acts)) =>
            \A i \in (Len(acts) + 1)..Len(acts') :
                SizedFromBalance(acts'[i]) =>
                    IsFlooredQty(acts'[i].rec.qty,
                                 balance_usd' * CurSettings.ORDER_PERCENT,
                                 acts'[i].rec.price, CurSettings.QTY_PRECISION)]_vars

\* the second symbol of the cycle gets an order of the same size as the
\* first, in the other direction
C24_Witness ==
    /\ pc = "evaluated"
    /\ Len(visited) = 2
    /\ \E i \in 1..Len(Appended) : SizedFromBalance(Appended[i])
    /\ \E j, k \in 1..Len(Journal(trades_file)) :
        LET r == Journal(trades_file)[j]
            t == Journal(trades_file)[k]
        IN /\ r.symbol = "BTCUSDT" /\ t.symbol = "ETHUSDT"
           /\ r.timestamp # t.timestamp
           /\ Lower(r.side) # Lower(t.side)
           /\ r.qty = t.qty /\ r.price = t.price

\* a <= b for floats a and b
FloatLE(a, b) ==
    LET mn == IF a[2] < b[2] THEN a[2] ELSE b[2]
    IN a[1] * 2^(a[2] - mn) <= b[1] * 2^(b[2] - mn)

\* (a - b) * f < 1 for floats a >= b and an int f
FloatGapBelow(a, b, f) ==
    LET mn == IF a[2] < b[2] THEN a[2] ELSE b[2]
        gap == (a[1] * 2^(a[2] - mn) - b[1] * 2^(b[2] - mn)) * f
    IN IF mn >= 0 THEN gap * 2^mn < 1 ELSE gap < 2^(0 - mn)

\* C25: floor_qty(q, prec) is 0 for every q <= 0, and for q > 0 the result
\* never exceeds q and differs from q by less than 10^-prec.
C25_FloorQtyBelowWithinStep ==
    call # NoCall =>
        IF call.q[1] <= 0 THEN call.result[1] = 0
        ELSE /\ FloatLE(<<0, 0>>, call.result)
             /\ FloatLE(call.result, call.q)
             /\ FloatGapBelow(call.q, call.result, 10^call.prec)

\* C26: when both signals are confirmed the policy handles buy before sell:
\* in an evaluation, every event of a buy-direction action (dispatch,
\* append, notification) comes before every event of a sell-direction one.
C26_BuyBeforeSell ==
    InEvaluation =>
        \A i, j \in 1..Len(acts) :
            (Lower(acts[i].rec.side) = "sell" /\ Lower(acts[j].rec.side) = "buy")
                => j < i

\* C27: a journal I/O error during an append is not propagated and costs
\* only the record being appended: after a step that appends record tr no
\* fault is recorded for the symbol and the journal is either what it was
\* (tr not persisted) or what it was followed by tr.
C27_IoErrorLosesOnlyTheRecord ==
    [][(pc = "policy" /\ NotifiedNow) =>
        LET tr == acts'[Len(acts')].rec
        IN /\ faults' = faults
           /\ Journal(trades_file') \in {Journal(trades_file),
                                         Append(Journal(trades_file), tr)}]_vars

\* the actions whose quantity comes from order_usd: every action of the
\* futures_only branch, the opening ones of the mixed branch
SizedAction(settings, e) == TradeMode(settings) = "futures_only" \/ SizedFromBalance(e)

\* C28: order_usd is ORDER_SIZE_USD when that is > 0 and balance *
\* ORDER_PERCENT / 100 otherwise: every sized action of an evaluation has
\* the quantity order_usd / price floored to QTY_PRECISION decimals; when
\* order_usd <= 0 the evaluation has no order call and no journal record of
\* a sized action, and it ends without a fault unless the order call of
\* another action raised.
C28_OrderUsdAndCapitalSkip ==
    InEvaluation =>
        LET usd == IF CurSettings.ORDER_SIZE_USD > 0
                   THEN CurSettings.ORDER_SIZE_USD * 100
                   ELSE balance_usd * CurSettings.ORDER_PERCENT
        IN /\ \A i \in 1..Len(acts) :
                SizedAction(CurSettings, acts[i]) =>
                    /\ usd > 0
                    /\ IsFlooredQty(acts[i].rec.qty, usd, acts[i].rec.price,
                                    CurSettings.QTY_PRECISION)
           /\ (usd <= 0 /\ pc = "evaluated" /\ ~Raised("buy") /\ ~Raised("sell"))
                 => cur \notin faults

\* in debt and without a fixed size: the confirmed sell closes the spot
\* position and the short that would follow is skipped
C28_Witness ==
    /\ pc = "evaluated"
    /\ CurSettings.ORDER_SIZE_USD = 0
    /\ balance_usd < 0
    /\ TradeMode(CurSettings) = "mixed"
    /\ SellConfirmed(CurSettings, sig)
    /\ pos.short = None
    /\ Len(Appended) = 1
    /\ Appended[1].rec.market_type = "spot"

\* C29: every futures order call for a close action carries reduce_only =
\* true and every futures order call for an open action carries
\* reduce_only = false, whether the call returns or raises.
C29_ReduceOnlyOnCloses ==
    InEvaluation =>
        \A i \in 1..Len(acts) :
            (acts[i].type \in {"order", "order_raised"}
             /\ acts[i].rec.market_type = "futures")
                => /\ acts[i].rec.action \in {"open", "close"}
                   /\ acts[i].reduce_only = (acts[i].rec.action = "close")

\* a mixed evaluation closed its short with a reduce-only buy
C29_Witness ==
    /\ pc = "evaluated"
    /\ TradeMode(CurSettings) = "mixed"
    /\ \E i \in 1..Len(acts) :
        /\ acts[i].type = "order"
        /\ acts[i].rec.market_type = "futures"
        /\ acts[i].rec.action = "close"
        /\ acts[i].reduce_only

IsCloseRecord(r) ==
    \/ (r.market_type = "spot" /\ Lower(r.side) = "sell")
    \/ (r.market_type = "futures" /\ r.action = "close")

\* the partition a close-class record closes, as the evaluation
\* reconstructed it
ClosedPartition(r) ==
    IF r.market_type = "spot" THEN pos.spot
    ELSE IF Lower(r.side) = "buy" THEN pos.short
    ELSE pos.long

\* C30: a close-class record (spot sell, futures buy/close, futures
\* sell/close) is journaled only in an evaluation that reconstructed the
\* partition it closes as open, for the record's own symbol and account.
C30_ClosesOnlyOpenPositions ==
    InEvaluation =>
        \A i \in 1..Len(Appended) :
            IsCloseRecord(Appended[i].rec) =>
                /\ ClosedPartition(Appended[i].rec) # None
                /\ ClosedPartition(Appended[i].rec)[1].symbol = Appended[i].rec.symbol
                /\ ClosedPartition(Appended[i].rec)[1].user_id = Appended[i].rec.user_id

\* a futures_only evaluation closed the long that an earlier one had opened
C30_Witness ==
    /\ pc = "evaluated"
    /\ TradeMode(CurSettings) = "futures_only"
    /\ pos.long # None
    /\ \E i \in 1..Len(Appended) :
        /\ Appended[i].rec.action = "close"
        /\ Lower(Appended[i].rec.side) = "sell"
    /\ IsCloseRecord(Journal(trades_file)[Len(Journal(trades_file))])

\* C31: in futures_only mode, starting from an empty journal, an evaluation
\* never reconstructs a futures long and a futures short of its (account,
\* symbol) as both open.
C31_NeverLongAndShort ==
    (InEvaluation /\ TradeMode(CurSettings) = "futures_only")
        => ~(pos.long # None /\ pos.short # None)

\* C32: with ENABLE_SHORTS false no futures short is opened in any trade
\* mode: no order call and no journal record of the account has side sell
\* and action open.
C32_NoShortsUnlessEnabled ==
    (InEvaluation /\ ~CurSettings.ENABLE_SHORTS) =>
        \A i \in 1..Len(acts) :
            ~(/\ acts[i].rec.market_type = "futures"
              /\ Lower(acts[i].rec.side) = "sell"
              /\ acts[i].rec.action = "open")

\* C33: after a symbol evaluation and for each partition of its (account,
\* symbol), the position derived from the journal agrees with the append
\* order: it is open exactly when the record appended last for the
\* partition is open-class, also when records carry the same timestamp.
C33_LastAppendedDecides ==
    pc = "evaluated" =>
        \A p \in Partitions :
            LET J == PartJournal(Journal(trades_file), cur.user_id, cur.symbol, p)
                d == DetectPositions(trades_file, cur.user_id, cur.symbol, AllReadsOk)
            IN J # << >> => (OpenClass(p, J[Len(J)]) <=> d[p] # None)

\* C34: in every trade mode the quantity of a close action is the quantity
\* of the open record it closes, the one the reconstruction returned for
\* the partition.
C34_CloseQtyIsOpenQty ==
    InEvaluation =>
        \A i \in 1..Len(acts) :
            (IsCloseRecord(acts[i].rec) /\ ClosedPartition(acts[i].rec) # None)
                => acts[i].rec.qty = ClosedPartition(acts[i].rec)[1].qty

\* the partition is open in the journal of the model's one (account, symbol)
OpenInJournal(p) ==
    DetectPositions(trades_file, 1, "BTCUSDT", AllReadsOk)[p] # None

\* gateway and journal work, the clock of the model has not run out, and
\* every evaluation confirms both signals (so the opposite one of any
\* position)
NothingFails == nfaults = 0 /\ now < MaxClock

BothConfirmed ==
    InEvaluation => (BuyConfirmed(CurSettings, sig) /\ SellConfirmed(CurSettings, sig))

\* C35: if a position is open and the opposite signal is confirmed in every
\* later cycle, with gateway and journal working and evaluations going on,
\* the position is eventually reconstructed as closed, whatever the balance
\* and the capital policy, in every trade mode.
C35_OpenEventuallyClosed ==
    ([]NothingFails /\ []BothConfirmed /\ []<>(pc = "evaluated"))
        => \A p \in Partitions : [](OpenInJournal(p) => <>(~OpenInJournal(p)))

\* C38: evaluating one (account, symbol) appends only records tagged with
\* that account and symbol, and leaves the reconstructed spot, long and
\* short state of every other (account, symbol) pair as it was.
C38_OtherPairsUntouched ==
    [][(pc = "policy" /\ NotifiedNow) =>
        /\ \A i \in (Len(acts) + 1)..Len(acts') :
               /\ acts'[i].rec.user_id = cur.user_id
               /\ acts'[i].rec.symbol = cur.symbol
        /\ \A u \in DOMAIN users :
               \A i \in 1..Len(users[u].settings.SYMBOLS) :
                   LET sy == users[u].settings.SYMBOLS[i]
                   IN (u # cur.user_id \/ sy # cur.symbol) =>
                          DetectPositions(trades_file', u, sy, AllReadsOk)
                              = DetectPositions(trades_file, u, sy, AllReadsOk)]_vars

\* C36: no order with a quantity <= 0 is dispatched or journaled, whatever
\* the configuration (MIN_NOTIONAL <= 0 included), the balance and the
\* price.
C36_NoZeroQuantity ==
    InEvaluation => \A i \in 1..Len(acts) : acts[i].rec.qty > 0

\* C37: the trade mode restricts the markets: a futures_only account never
\* dispatches or journals a spot action, even with a spot position open in
\* the journal, and an account in any other mode never opens a futures long.
C37_ModeRestrictsMarkets ==
    InEvaluation =>
        \A i \in 1..Len(acts) :
            IF Lower(CurSettings.TRADE_MODE) = "futures_only"
            THEN acts[i].rec.market_type = "futures"
            ELSE ~(/\ acts[i].rec.market_type = "futures"
                   /\ Lower(acts[i].rec.side) = "buy"
                   /\ acts[i].rec.action = "open")

\* a futures_only account with a spot position in the journal and a
\* confirmed sell opened a short and left the spot position alone
C37_Witness ==
    /\ pc = "evaluated"
    /\ Lower(CurSettings.TRADE_MODE) = "futures_only"
    /\ pos.spot # None
    /\ SellConfirmed(CurSettings, sig)
    /\ Appended # << >>
    /\ has_open_spot(Journal(trades_file), cur.user_id, cur.symbol) # None

\* the lower-cased mode is none of the three the engine names
UnknownMode(settings) ==
    Lower(settings.TRADE_MODE) \notin {"mixed", "spot_only", "futures_only"}

Dict(d) == [t |-> "dict", v |-> d]

List(items) == [t |-> "list", v |-> items]

Str(pieces) == [t |-> "str", v |-> pieces]

NoneValue == [t |-> "none", v |-> << >>]

\* str.strip().upper() on the pieces that occur
StripUpper(piece) ==
    CASE piece = "eth" -> "ETH"
      [] piece = " btc" -> "BTC"
      [] piece = " " -> ""
      [] OTHER -> piece

\* the items of a list that are not empty after stripping, stripped and
\* upper-cased; the non-blank pieces of a str between "," and ";"; [] for None
normalize_symbols(raw) ==
    CASE raw.t = "list" ->
            LET kept == SelectSeq(raw.v, LAMBDA it : it # "" /\ StripUpper(it) # "")
            IN [i \in 1..Len(kept) |-> StripUpper(kept[i])]
      [] raw.t = "str" ->
            LET kept == SelectSeq(raw.v, LAMBDA pc0 :
                                      pc0 \notin {",", ";"} /\ StripUpper(pc0) # "")
            IN [i \in 1..Len(kept) |-> StripUpper(kept[i])]
      [] OTHER -> << >>

\* d.setdefault(k, v) for every k, v of defaults
MergeDefaults(d, defaults) ==
    [k \in DOMAIN d \cup DOMAIN defaults |->
        IF k \in DOMAIN d THEN d[k] ELSE defaults[k]]

\* the settings keys modelled, with trading_core's defaults
CoreDefaults ==
    [TRADE_MODE |-> Str(<<"mixed">>), SYMBOLS |-> List(<<"BTCUSDT">>)]

\* the same keys, and the trial flag, with db_json's defaults
DEFAULT_SETTINGS ==
    [TRADE_MODE |-> Str(<<"FUTURES">>), SYMBOLS |-> List(<<"BTCUSDT">>),
     used_trial |-> Str(<<"False">>)]

\* u["settings"], replaced by {} when absent or not a dict
SettingsDict(u) ==
    IF "settings" \in DOMAIN u /\ u["settings"].t = "dict"
    THEN u["settings"].v
    ELSE << >>

\* trading_core._ensure_user_defaults on the record u of account uid 1
ensure_user_defaults(u) ==
    LET s1 == MergeDefaults(SettingsDict(u), CoreDefaults)
        s2 == IF "symbols" \in DOMAIN s1 /\ "SYMBOLS" \notin DOMAIN s1
              THEN LET syms == normalize_symbols(s1["symbols"])
                       rest == [k \in DOMAIN s1 \ {"symbols"} |-> s1[k]]
                   IN IF syms # << >>
                      THEN MergeDefaults([SYMBOLS |-> List(syms)], rest)
                      ELSE rest
              ELSE s1
        sym == IF "SYMBOLS" \in DOMAIN s2 THEN s2["SYMBOLS"] ELSE NoneValue
        s3 == IF sym.t = "str"
              THEN MergeDefaults([SYMBOLS |-> List(normalize_symbols(sym))], s2)
              ELSE IF sym.t # "list"
                   THEN MergeDefaults([SYMBOLS |-> CoreDefaults.SYMBOLS], s2)
                   ELSE s2
    IN MergeDefaults([settings |-> Dict(s3)],
                     MergeDefaults(u, [username |-> "user_1", api_key |-> "",
                                       api_secret |-> "", _positions |-> << >>]))

\* db_json._ensure_user_defaults on the record u of account uid 1
db_ensure_user_defaults(u) ==
    LET s1 == MergeDefaults(SettingsDict(u), DEFAULT_SETTINGS)
        top == MergeDefaults(u, [username |-> "user_1", api_key |-> "",
                                 api_secret |-> "", sub_until |-> "None",
                                 _positions |-> << >>])
        migrate == "used_trial" \in DOMAIN u /\ "used_trial" \notin DOMAIN s1
        s2 == IF migrate
              THEN MergeDefaults([used_trial |-> Str(<<"True">>)], s1)
              ELSE s1
        kept == IF migrate THEN DOMAIN top \ {"used_trial"} ELSE DOMAIN top
    IN MergeDefaults([settings |-> Dict(s2)], [k \in kept |-> top[k]])

\* what a stored settings dict may hold under each key
StoredSettingValues ==
    [TRADE_MODE |-> {Str(<<"FUTURES">>)},
     SYMBOLS |-> {List(<<"ETHUSDT">>), Str(<<"eth", ",", " btc">>),
                  Str(<<" ">>), NoneValue},
     symbols |-> {List(<<"ETHUSDT">>)}]

\* the values stored under "settings": a dict, or null
StoredSettings ==
    {NoneValue}
    \cup {Dict(d) : d \in UNION {{f \in [K -> UNION {StoredSettingValues[k] : k \in K}] :
                                     \A k \in K : f[k] \in StoredSettingValues[k]} :
                                 K \in SUBSET DOMAIN StoredSettingValues}}

\* what a stored record may hold at top level beside the settings
StoredTop == [username |-> "bob", used_trial |-> "True"]

InitDefaults ==
    /\ trades_file = EmptyFile
    /\ users = << >>
    /\ EngineAtRest
    /\ pos = NoPos
    /\ cur = NoCur

\* _ensure_user_defaults(users, uid), and the same call on its result
EnsureDefaults ==
    /\ \E K \in SUBSET (DOMAIN StoredTop \cup {"settings"}), st \in StoredSettings,
          in_core \in BOOLEAN :
        LET u == [k \in K |-> IF k = "settings" THEN st ELSE StoredTop[k]]
            once == IF in_core THEN ensure_user_defaults(u)
                    ELSE db_ensure_user_defaults(u)
            twice == IF in_core THEN ensure_user_defaults(once)
                     ELSE db_ensure_user_defaults(once)
        IN call' = [record |-> u, once |-> once, twice |-> twice]
    /\ UNCHANGED <<trades_file, users, pc, ui, si, balance_usd, now, sig, pos, blk,
                   acts, seen, visited, faults, crashed, nfaults, cur, outcome>>
    /\ UNCHANGED <<lock, thr, loaded>>

NextDefaults == EnsureDefaults

SpecDefaults == InitDefaults /\ [][NextDefaults]_vars

\* the two values have the same type and the same content
SameValue(a, b) == a.t = b.t /\ a.v = b.v

\* every key of the record before is in the record after with its value,
\* and so is every key of a settings value that was stored
PresentKeysKept(before, after) ==
    /\ DOMAIN before \subseteq DOMAIN after
    /\ \A k \in DOMAIN before \ {"settings"} : after[k] = before[k]
    /\ "settings" \in DOMAIN before =>
        /\ after["settings"].t = before["settings"].t
        /\ \A k \in DOMAIN before["settings"].v :
            /\ k \in DOMAIN after["settings"].v
            /\ SameValue(after["settings"].v[k], before["settings"].v[k])

\* the second application changed nothing
AppliedTwiceIsOnce ==
    call # NoCall =>
        /\ DOMAIN call.twice = DOMAIN call.once
        /\ \A k \in DOMAIN call.once \ {"settings"} : call.twice[k] = call.once[k]
        /\ DOMAIN call.twice["settings"].v = DOMAIN call.once["settings"].v
        /\ \A k \in DOMAIN call.once["settings"].v :
            SameValue(call.twice["settings"].v[k], call.once["settings"].v[k])

\* C40: defaulting is merge-only: for every stored record,
\* _ensure_user_defaults adds only absent keys and leaves the value of every
\* key that was present unchanged, and applying it twice gives the record
\* that applying it once gives.
C40_DefaultsMergeOnly ==
    call # NoCall =>
        /\ PresentKeysKept(call.record, call.once)
        /\ call.twice = call.once
====
